---- MODULE Spec2Model ----
\* Model of toml-bombadil's settings loader (src/settings.rs): Settings::get,
\* Settings::merge_imports, Settings::merge and Settings::get_dotfiles_path,
\* run against a small file system and host environment chosen in Init.
EXTENDS Integers, Sequences, FiniteSets, TLC

VARIABLES
    config_dir,     \* dirs::config_dir(): Option<PathBuf>
    home_dir,       \* dirs::home_dir(): Option<PathBuf>
    rootFile,       \* the file at <config dir>/bombadil.toml
    fs,             \* the rest of the file system: path -> entry
    pc,             \* position inside Settings::get
    settings,       \* the local `settings` of Settings::get (Option)
    import_paths,   \* the local `import_paths` of merge_imports
    idx,            \* position of the `for path in import_paths.iter()` loop
    result,         \* what Settings::get gave its caller
    stderr,         \* lines written by eprintln!
    attempted,      \* resolved import paths the loop has tested with path.exists()
    merged,         \* fragments handed to Settings::merge, in order
    dotfiles_path   \* result of a later call of get_dotfiles_path on the loaded settings

vars == <<config_dir, home_dir, rootFile, fs, pc, settings, import_paths, idx,
          result, stderr, attempted, merged, dotfiles_path>>

\* ---------------------------------------------------------------- bounds
\* Longest `import` list of the root file.
MaxImports == 2

\* ---------------------------------------------------------------- paths
\* A path is the sequence of its components; the root component "/" comes
\* first in an absolute path (std::path::Path::components).
is_absolute(path) == Len(path) > 0 /\ path[1] = "/"

\* PathBuf::join: an absolute argument replaces the receiver.
join(base, path) == IF is_absolute(path) THEN path ELSE base \o path

Cwd == <<"/", "cwd">>
HomePath == <<"/", "home">>
ConfigDirPath == <<"/", "cfg">>
BOMBADIL_CONFIG == <<"bombadil.toml">>

DotsAbs == <<"/", "dots">>
DotsRel == <<"dots">>
HomeDots == <<"/", "home", "dots">>

ImportA == <<"a.toml">>
ImportB == <<"b.toml">>
ImportC == <<"/", "x", "c.toml">>
ImportEntries == {ImportA, ImportB, ImportC}

Some(v) == [some |-> TRUE, val |-> v]
NoPath == [some |-> FALSE, val |-> <<>>]

\* ---------------------------------------------------------------- data
EmptyMap == [k \in {} |-> k]

\* Faulty variant of MapExtend: a key already present keeps its value.
MapExtendKeepExisting(map, other) ==
    [k \in DOMAIN map \cup DOMAIN other |->
        IF k \in DOMAIN map THEN map[k] ELSE other[k]]

\* HashMap::extend: every entry of `other` is inserted, replacing the value
\* of a key that is already present.
MapExtend(map, other) ==
    [k \in DOMAIN map \cup DOMAIN other |->
        IF k \in DOMAIN other THEN other[k] ELSE map[k]]

Profile(tag) ==
    [dots |-> ("vim" :> (tag \o "_override")),
     extra_profiles |-> <<tag \o "_extra">>,
     prehooks |-> <<tag \o "_profile_pre">>,
     posthooks |-> <<>>,
     vars |-> << <<tag \o "_profile.vars">> >>]

ActiveProfileDefault ==
    [dots |-> EmptyMap, prehooks |-> <<>>, posthooks |-> <<>>, vars |-> <<>>]

\* The fragments import files can hold. FragA and FragB collide on the dot
\* "vim" and on the profile "work", and import each other; FragC imports
\* itself.
FragA ==
    [settings |-> [dots |-> ("vim" :> "A_vim" @@ "zsh" :> "A_zsh"),
                   prehooks |-> <<"A_pre">>,
                   posthooks |-> <<"A_post">>,
                   vars |-> << <<"a.vars">> >>],
     profiles |-> ("work" :> Profile("A")),
     import |-> <<ImportB>>]

FragB ==
    [settings |-> [dots |-> ("vim" :> "B_vim" @@ "git" :> "B_git"),
                   prehooks |-> <<"B_pre1", "B_pre2">>,
                   posthooks |-> <<>>,
                   vars |-> <<>>],
     profiles |-> ("work" :> Profile("B") @@ "home" :> Profile("B")),
     import |-> <<ImportA>>]

FragC ==
    [settings |-> [dots |-> ("git" :> "C_git"),
                   prehooks |-> <<>>,
                   posthooks |-> <<"C_post">>,
                   vars |-> << <<"c.vars">> >>],
     profiles |-> EmptyMap,
     import |-> <<ImportC>>]

FragDecoy ==
    [settings |-> [dots |-> ("decoy" :> "decoy"),
                   prehooks |-> <<"decoy_pre">>,
                   posthooks |-> <<>>,
                   vars |-> <<>>],
     profiles |-> EmptyMap,
     import |-> <<>>]

\* File system entries.
Missing == [kind |-> "missing", frag |-> FragDecoy]
Dir == [kind |-> "dir", frag |-> FragDecoy]
Syntax == [kind |-> "syntax", frag |-> FragDecoy]      \* not parsable as TOML
Schema == [kind |-> "schema", frag |-> FragDecoy]      \* TOML, not an ImportedSettings
Fragment(f) == [kind |-> "fragment", frag |-> f]

FileContents(f) == {Missing, Syntax, Schema, Fragment(f)}

DotDirs == {DotsAbs, HomeDots}
Decoys == {Cwd \o ImportA, Cwd \o ImportB, ConfigDirPath \o ImportA,
           ConfigDirPath \o ImportB}
FsPaths == DotDirs \cup {d \o n : d \in DotDirs, n \in {ImportA, ImportB}}
           \cup {ImportC} \cup Decoys

\* The file system in which the directories `dirs` exist and hold a.toml and
\* b.toml with contents ka and kb, and /x/c.toml has content kc.
FsOf(dirs, ka, kb, kc) ==
    [p \in FsPaths |->
        CASE p \in DotDirs -> IF p \in dirs THEN Dir ELSE Missing
          [] p \in Decoys -> Fragment(FragDecoy)
          [] p = ImportC -> kc
          [] OTHER ->
               IF SubSeq(p, 1, Len(p) - 1) \in dirs
               THEN IF p[Len(p)] = "a.toml" THEN ka ELSE kb
               ELSE Missing]

\* Path::exists; a relative path is looked up from the working directory.
exists(path) ==
    LET abs == join(Cwd, path)
    IN abs \in DOMAIN fs /\ fs[abs].kind # "missing"

SeqsUpTo(S, n) == UNION {[1..k -> S] : k \in 0..n}

NoGpg == [some |-> FALSE, val |-> ""]

RootFull(dd, imports) ==
    [dotfiles_dir |-> dd,
     gpg_user_id |-> [some |-> TRUE, val |-> "gpg-id"],
     settings |-> [dots |-> ("vim" :> "R_vim" @@ "tmux" :> "R_tmux"),
                   prehooks |-> <<"R_pre">>,
                   posthooks |-> <<"R_post">>,
                   vars |-> << <<"r.vars">> >>],
     profiles |-> ("work" :> Profile("R")),
     import |-> imports]

\* A root file that sets only dotfiles_dir and import: serde fills the rest
\* with defaults.
RootBare(dd, imports) ==
    [dotfiles_dir |-> dd,
     gpg_user_id |-> NoGpg,
     settings |-> ActiveProfileDefault,
     profiles |-> EmptyMap,
     import |-> imports]

ImportLists == SeqsUpTo(ImportEntries, MaxImports)

RootContents ==
    {RootFull(dd, im) : dd \in {DotsAbs, DotsRel}, im \in ImportLists}
    \cup {RootBare(dd, im) : dd \in {DotsAbs, DotsRel}, im \in ImportLists}

RootFiles ==
    {[kind |-> "missing", content |-> RootBare(DotsAbs, <<>>)],
     [kind |-> "syntax", content |-> RootBare(DotsAbs, <<>>)]}
    \cup {[kind |-> "unknown_key", content |-> RootFull(DotsAbs, im)] : im \in ImportLists}
    \cup {[kind |-> "root", content |-> c] : c \in RootContents}

NoSettings == [some |-> FALSE, val |-> RootBare(<<>>, <<>>)]

\* ---------------------------------------------------------------- results
Running == [kind |-> "none", error |-> ""]
Ok == [kind |-> "ok", error |-> ""]
Err(e) == [kind |-> "err", error |-> e]
Panic(e) == [kind |-> "panic", error |-> e]

PathOk(p) == [ok |-> TRUE, path |-> p, error |-> ""]
PathErr(e) == [ok |-> FALSE, path |-> <<>>, error |-> e]
NotCalled == [ok |-> FALSE, path |-> <<>>, error |-> "not called"]

Init ==
    /\ \E cfg \in {NoPath, Some(ConfigDirPath)}, home \in {NoPath, Some(HomePath)} :
          \* dirs::config_dir falls back on $HOME/.config: a host with a home
          \* directory has a config directory.
          /\ (home.some => cfg.some)
          /\ config_dir = cfg
          /\ home_dir = home
    /\ rootFile \in RootFiles
    /\ \E dirs \in SUBSET DotDirs, ka \in FileContents(FragA),
          kb \in FileContents(FragB), kc \in FileContents(FragC) :
          fs = FsOf(dirs, ka, kb, kc)
    /\ pc = "get"
    /\ settings = NoSettings
    /\ import_paths = <<>>
    /\ idx = 0
    /\ result = Running
    /\ stderr = <<>>
    /\ attempted = <<>>
    /\ merged = <<>>
    /\ dotfiles_path = NotCalled

\* ---------------------------------------------------------------- operations
\* Faulty variant of ParseRoot: Settings without deny_unknown_fields.
ParseRootLenient(file) ==
    CASE file.kind = "syntax" -> [ok |-> FALSE, error |-> "parse"]
      [] OTHER -> [ok |-> TRUE, error |-> ""]

\* Config::merge(File::from(path)) followed by try_into::<Settings>() on the
\* root file: the file is read and parsed by merge, whose error `?` returns;
\* try_into rejects an unknown top-level key (deny_unknown_fields).
ParseRoot(file) ==
    CASE file.kind = "syntax" -> [ok |-> FALSE, error |-> "parse"]
      [] file.kind = "unknown_key" -> [ok |-> FALSE, error |-> "Config format error"]
      [] OTHER -> [ok |-> TRUE, error |-> ""]

\* Settings::bombadil_config_xdg_path
bombadil_config_xdg_path ==
    IF config_dir.some
    THEN PathOk(join(config_dir.val, BOMBADIL_CONFIG))
    ELSE PathErr("Unable to find $XDG_CONFIG/bombadil.toml")

\* Settings::get_dotfiles_path
get_dotfiles_path(self) ==
    IF ~home_dir.some
    THEN PathErr("$HOME directory not found")
    ELSE LET path == IF is_absolute(self.dotfiles_dir)
                     THEN self.dotfiles_dir
                     ELSE join(home_dir.val, self.dotfiles_dir)
         IN IF ~exists(path)
            THEN PathErr("Dotfiles directory does not exist")
            ELSE PathOk(path)

\* The closure of merge_imports that maps one import entry to the path to
\* load; ok is FALSE where get_dotfiles_path().unwrap() panics.
ResolveImport(self, path) ==
    IF is_absolute(path)
    THEN PathOk(path)
    ELSE LET root == get_dotfiles_path(self)
         IN IF root.ok THEN PathOk(join(root.path, path)) ELSE root

\* Faulty variant of extend_from_slice: an entry already present is not
\* appended again.
RECURSIVE ExtendDedup(_, _)
ExtendDedup(vec, slice) ==
    IF slice = <<>> THEN vec
    ELSE ExtendDedup(IF \E i \in 1..Len(vec) : vec[i] = Head(slice)
                     THEN vec ELSE Append(vec, Head(slice)),
                     Tail(slice))

\* Vec::extend_from_slice
extend_from_slice(vec, slice) == vec \o slice

\* Faulty variant of merge: gpg_user_id is taken from the fragment, which has
\* none.
mergeFromFragment(self, sub_settings) ==
    [dotfiles_dir |-> self.dotfiles_dir,
     gpg_user_id |-> NoGpg,
     settings |->
        [prehooks |-> extend_from_slice(self.settings.prehooks, sub_settings.settings.prehooks),
         posthooks |-> extend_from_slice(self.settings.posthooks, sub_settings.settings.posthooks),
         vars |-> extend_from_slice(self.settings.vars, sub_settings.settings.vars),
         dots |-> MapExtend(self.settings.dots, sub_settings.settings.dots)],
     import |-> extend_from_slice(self.import, sub_settings.import),
     profiles |-> MapExtend(self.profiles, sub_settings.profiles)]

\* Settings::merge
merge(self, sub_settings) ==
    [dotfiles_dir |-> self.dotfiles_dir,
     gpg_user_id |-> self.gpg_user_id,
     settings |->
        [prehooks |-> extend_from_slice(self.settings.prehooks, sub_settings.settings.prehooks),
         posthooks |-> extend_from_slice(self.settings.posthooks, sub_settings.settings.posthooks),
         vars |-> extend_from_slice(self.settings.vars, sub_settings.settings.vars),
         dots |-> MapExtend(self.settings.dots, sub_settings.settings.dots)],
     import |-> extend_from_slice(self.import, sub_settings.import),
     profiles |-> MapExtend(self.profiles, sub_settings.profiles)]

Diagnostic(msg, path) == [msg |-> msg, path |-> path]

\* ---------------------------------------------------------------- actions
\* Settings::get up to the call of merge_imports: locate the root file, read,
\* parse and deserialize it.
GetRoot ==
    /\ pc = "get"
    /\ LET parsed == ParseRoot(rootFile)
           path == bombadil_config_xdg_path
           path_exists == path.ok /\ rootFile.kind # "missing"
       IN CASE ~path.ok ->
                 /\ result' = Err("Config error")
                 /\ pc' = "done"
                 /\ UNCHANGED settings
            [] path.ok /\ ~path_exists ->
                 /\ result' = Err("Unable to find bombadil config file")
                 /\ pc' = "done"
                 /\ UNCHANGED settings
            [] path_exists /\ ~parsed.ok ->
                 /\ result' = Err(parsed.error)
                 /\ pc' = "done"
                 /\ UNCHANGED settings
            [] OTHER ->
                 /\ settings' = Some(rootFile.content)
                 /\ pc' = "merge_imports"
                 /\ UNCHANGED result
    /\ UNCHANGED <<config_dir, home_dir, rootFile, fs, import_paths, idx, stderr,
                   attempted, merged, dotfiles_path>>

\* merge_imports, the collect() of import_paths: every entry of self.import is
\* resolved before the loop starts.
ResolveImportPaths ==
    /\ pc = "merge_imports"
    /\ LET self == settings.val
           resolved == [i \in 1..Len(self.import) |-> ResolveImport(self, self.import[i])]
       IN IF \E i \in 1..Len(resolved) : ~resolved[i].ok
          THEN LET first == CHOOSE i \in 1..Len(resolved) :
                              /\ ~resolved[i].ok
                              /\ \A j \in 1..(i - 1) : resolved[j].ok
               IN /\ result' = Panic(resolved[first].error)
                  /\ pc' = "done"
                  /\ UNCHANGED <<import_paths, idx>>
          ELSE /\ import_paths' = [i \in 1..Len(resolved) |-> resolved[i].path]
               /\ idx' = 1
               /\ pc' = "loop"
               /\ UNCHANGED result
    /\ UNCHANGED <<config_dir, home_dir, rootFile, fs, settings, stderr, attempted,
                   merged, dotfiles_path>>

\* One iteration of `for path in import_paths.iter()`.
LoadImport ==
    /\ pc = "loop"
    /\ idx <= Len(import_paths)
    /\ LET path == import_paths[idx]
           file == fs[join(Cwd, path)]
       IN /\ attempted' = Append(attempted, path)
          /\ CASE ~exists(path) ->
                    /\ stderr' = Append(stderr,
                          Diagnostic("Unable to find bombadil import file", path))
                    /\ idx' = idx + 1
                    /\ UNCHANGED <<settings, merged, result, pc>>
               [] exists(path) /\ file.kind = "fragment" ->
                    /\ settings' = Some(merge(settings.val, file.frag))
                    /\ merged' = Append(merged, file.frag)
                    /\ idx' = idx + 1
                    /\ UNCHANGED <<stderr, result, pc>>
               [] exists(path) /\ file.kind = "schema" ->
                    /\ stderr' = Append(stderr,
                          Diagnostic("Error loading settings from", path))
                    /\ idx' = idx + 1
                    /\ UNCHANGED <<settings, merged, result, pc>>
               [] OTHER ->
                    \* s.merge(File::from(path))? : the file cannot be read
                    \* or parsed, and the error leaves merge_imports and get.
                    /\ result' = Err("import parse")
                    /\ pc' = "done"
                    /\ UNCHANGED <<settings, merged, stderr, idx>>
    /\ UNCHANGED <<config_dir, home_dir, rootFile, fs, import_paths, dotfiles_path>>

\* The end of the loop: merge_imports returns Ok(()) and get returns settings.
FinishImports ==
    /\ pc = "loop"
    /\ idx > Len(import_paths)
    /\ result' = Ok
    /\ pc' = "done"
    /\ UNCHANGED <<config_dir, home_dir, rootFile, fs, settings, import_paths, idx,
                   stderr, attempted, merged, dotfiles_path>>

\* The rest of the crate asks the loaded settings for the dotfiles directory.
GetDotfilesPath ==
    /\ pc = "done"
    /\ result.kind = "ok"
    /\ dotfiles_path' = get_dotfiles_path(settings.val)
    /\ pc' = "queried"
    /\ UNCHANGED <<config_dir, home_dir, rootFile, fs, settings, import_paths, idx,
                   result, stderr, attempted, merged>>

Next ==
    \/ GetRoot
    \/ ResolveImportPaths
    \/ LoadImport
    \/ FinishImports
    \/ GetDotfilesPath

Spec == Init /\ [][Next]_vars

\* ---------------------------------------------------------------- properties
Finished == pc \in {"done", "queried"}
Root == rootFile.content

\* The loop of merge_imports has been entered: the root parsed and every
\* import entry was resolved.
LoopEntered == settings.some /\ idx >= 1

Max(S) == CHOOSE m \in S : \A n \in S : n <= m

Count(seq, Test(_)) == Cardinality({i \in 1..Len(seq) : Test(seq[i])})

IsUnableToFind(d) == d.msg = "Unable to find bombadil import file"

\* The dotfiles root as the specification resolves it: dotfiles_dir itself
\* when absolute, otherwise the home directory joined with it.
SpecDotfilesRoot(dd) ==
    IF dd # <<>> /\ Head(dd) = "/" THEN Some(dd)
    ELSE IF home_dir.some THEN Some(home_dir.val \o dd)
    ELSE NoPath

\* The location the specification gives an import entry.
SpecImportPath(dd, entry) ==
    IF Head(entry) = "/" THEN entry ELSE SpecDotfilesRoot(dd).val \o entry

\* C1: once the root file has parsed and its import paths are resolved, the
\* load ends with the settings whatever the import files hold (missing, not
\* parsable, or not a fragment): no import failure becomes an Err.
C1_ImportFailuresNeverFatal ==
    (Finished /\ LoopEntered) => result.kind = "ok"

\* C2: when the root file parses and the resolved dotfiles directory does not
\* exist, the load ends in the missing-directory error, whatever the import
\* list.
C2_MissingDotfilesDirIsFatal ==
    (Finished /\ settings.some
        /\ SpecDotfilesRoot(Root.dotfiles_dir).some
        /\ ~exists(SpecDotfilesRoot(Root.dotfiles_dir).val))
    => result = Err("Dotfiles directory does not exist")

\* C3: a root file that is missing, not parsable or has an unknown top-level
\* key ends the load with an Err (a format error for the unknown key), gives
\* no settings, and no import is resolved, read, merged or reported.
C3_RootErrorsTerminal ==
    rootFile.kind \in {"missing", "syntax", "unknown_key"}
    => /\ settings = NoSettings
       /\ import_paths = <<>>
       /\ attempted = <<>>
       /\ merged = <<>>
       /\ stderr = <<>>
       /\ pc \in {"get", "done"}
       /\ pc = "done" => result.kind = "err"
       /\ (pc = "done" /\ config_dir.some /\ rootFile.kind = "unknown_key")
            => result = Err("Config format error")

C3_Witness ==
    /\ pc = "done"
    /\ config_dir.some
    /\ rootFile.kind = "unknown_key"
    /\ Len(Root.import) > 0
    /\ result = Err("Config format error")

\* The value a map field must have after the fragments of `history` were
\* merged into `base`: the union of the keys, each with the value of the last
\* fragment that defines it, or the root's when none does.
LastWriterWins(map, base, history, Field(_)) ==
    /\ DOMAIN map = DOMAIN base
                    \cup UNION {DOMAIN Field(history[i]) : i \in 1..Len(history)}
    /\ \A k \in DOMAIN map :
          LET defs == {i \in 1..Len(history) : k \in DOMAIN Field(history[i])}
          IN map[k] = IF defs = {} THEN base[k] ELSE Field(history[Max(defs)])[k]

DotsOf(f) == f.settings.dots
ProfilesOf(f) == f.profiles

\* C4: settings.dots and profiles hold the union of the keys of the root and
\* of every merged fragment, each key with the value of the most recently
\* merged fragment that defines it (a profile as a whole); and on a key two
\* fragments define differently, merging them in either order makes the
\* second one win.
C4_MapsLastWriterWins ==
    settings.some =>
      /\ LastWriterWins(settings.val.settings.dots, Root.settings.dots, merged, DotsOf)
      /\ LastWriterWins(settings.val.profiles, Root.profiles, merged, ProfilesOf)
      /\ \A a, b \in {FragA, FragB, FragC} :
           /\ \A k \in DOMAIN a.settings.dots \cap DOMAIN b.settings.dots :
                a.settings.dots[k] # b.settings.dots[k] =>
                  /\ merge(merge(settings.val, a), b).settings.dots[k] = b.settings.dots[k]
                  /\ merge(merge(settings.val, b), a).settings.dots[k] = a.settings.dots[k]
           /\ \A k \in DOMAIN a.profiles \cap DOMAIN b.profiles :
                a.profiles[k] # b.profiles[k] =>
                  /\ merge(merge(settings.val, a), b).profiles[k] = b.profiles[k]
                  /\ merge(merge(settings.val, b), a).profiles[k] = a.profiles[k]

C4_Witness ==
    /\ result.kind = "ok"
    /\ merged = <<FragA, FragB>>
    /\ "vim" \in DOMAIN Root.settings.dots
    /\ Root.settings.dots["vim"] = "R_vim"
    /\ settings.val.settings.dots["vim"] = "B_vim"
    /\ settings.val.settings.dots["zsh"] = "A_zsh"
    /\ settings.val.profiles["work"] = Profile("B")

\* `new` is `old` followed by the entries of `add`, in order.
Appended(old, new, add) ==
    /\ Len(new) = Len(old) + Len(add)
    /\ \A i \in 1..Len(old) : new[i] = old[i]
    /\ \A j \in 1..Len(add) : new[Len(old) + j] = add[j]

\* C5: every merge keeps the root's prehooks, posthooks, vars and import as a
\* prefix and appends the fragment's entries in order, duplicates included;
\* merging the fragment that was merged last once more grows the lists again
\* and leaves the sizes of dots and profiles as they were.
C5_ListsAdditive ==
    [][merged' # merged =>
        LET f == merged'[Len(merged')]
            old == settings.val
            new == settings'.val
        IN /\ Appended(old.settings.prehooks, new.settings.prehooks, f.settings.prehooks)
           /\ Appended(old.settings.posthooks, new.settings.posthooks, f.settings.posthooks)
           /\ Appended(old.settings.vars, new.settings.vars, f.settings.vars)
           /\ Appended(old.import, new.import, f.import)
           /\ (merged # <<>> /\ merged[Len(merged)] = f) =>
                /\ Cardinality(DOMAIN new.settings.dots)
                     = Cardinality(DOMAIN old.settings.dots)
                /\ Cardinality(DOMAIN new.profiles) = Cardinality(DOMAIN old.profiles)
      ]_vars

C5_Witness ==
    /\ merged = <<FragA, FragA>>
    /\ settings.val.settings.prehooks = Root.settings.prehooks \o <<"A_pre", "A_pre">>
    /\ settings.val.import = Root.import \o <<ImportB, ImportB>>
    /\ Root.settings.prehooks # <<>>

\* C6: when the loop runs over a list with a missing import file, the load
\* ends with the settings, every import of the list was attempted, and there
\* is one "Unable to find" line per missing import.
C6_MissingImportsSkipped ==
    (Finished /\ LoopEntered /\ \E i \in 1..Len(import_paths) : ~exists(import_paths[i]))
    => /\ result.kind = "ok"
       /\ Len(attempted) = Len(import_paths)
       /\ Count(stderr, IsUnableToFind)
            = Cardinality({i \in 1..Len(import_paths) : ~exists(import_paths[i])})

\* C7: the settings keep the dotfiles_dir and gpg_user_id of the root file
\* through every merge, skipped import and failed import.
C7_RootOnlyFieldsKept ==
    settings.some =>
      /\ settings.val.dotfiles_dir = Root.dotfiles_dir
      /\ settings.val.gpg_user_id = Root.gpg_user_id

C7_Witness ==
    /\ result.kind = "ok"
    /\ Len(merged) >= 1
    /\ stderr # <<>>
    /\ settings.val.gpg_user_id.some
    /\ settings.val.settings.dots # Root.settings.dots

\* C8: get_dotfiles_path returns an absolute dotfiles_dir that exists as it
\* is, with or without a home directory, and fails for the home directory
\* only when dotfiles_dir is relative.
C8_HomeOnlyNeededWhenRelative ==
    dotfiles_path # NotCalled =>
      /\ (is_absolute(Root.dotfiles_dir) /\ exists(Root.dotfiles_dir))
           => dotfiles_path = PathOk(Root.dotfiles_dir)
      /\ dotfiles_path.error = "$HOME directory not found"
           => ~is_absolute(Root.dotfiles_dir)

\* C9: with a dotfiles root that resolves and exists, every import entry is
\* loaded from its own path when absolute and from the dotfiles root joined
\* with it when relative; a fragment found there has its dots in the loaded
\* settings, whose dotfiles_dir is the root's.
C9_ImportsResolveAgainstDotfilesRoot ==
    (settings.some /\ pc \notin {"get", "merge_imports"}
        /\ SpecDotfilesRoot(Root.dotfiles_dir).some
        /\ exists(SpecDotfilesRoot(Root.dotfiles_dir).val))
    => /\ Len(import_paths) = Len(Root.import)
       /\ \A i \in 1..Len(import_paths) :
            import_paths[i] = SpecImportPath(Root.dotfiles_dir, Root.import[i])
       /\ Finished =>
            /\ result.kind = "ok"
            /\ settings.val.dotfiles_dir = Root.dotfiles_dir
            /\ \A i \in 1..Len(Root.import) :
                 LET file == fs[SpecImportPath(Root.dotfiles_dir, Root.import[i])]
                 IN file.kind = "fragment"
                    => DOMAIN file.frag.settings.dots \subseteq DOMAIN settings.val.settings.dots

\* C10: the load attempts exactly the import entries of the root file, in
\* order, and none a fragment brought in.
C10_SinglePass ==
    (Finished /\ LoopEntered)
    => /\ Len(attempted) = Len(Root.import)
       /\ \A i \in 1..Len(attempted) :
            attempted[i] = SpecImportPath(Root.dotfiles_dir, Root.import[i])

====
